---- MODULE Spec2Model ----
(***************************************************************************)
(* Model of the no-db-verify account service: the HMAC capability tokens   *)
(* of src/src/verify.rs, the mutex-guarded user table of src/src/user.rs   *)
(* and the request handlers of src/src/main.rs.                            *)
(*                                                                         *)
(* Time is counted in minutes since 2020-01-01 00:00:00 UTC.               *)
(* HMAC-SHA3-256 is modelled as an ideal MAC: the tag is the pair of key   *)
(* and accumulated input, so two tags are equal exactly when the bytes     *)
(* fed to the MAC are equal.  What the code feeds to the MAC (the decimal  *)
(* identifier followed by the Display form of the expiry, or the email     *)
(* bytes) is computed as the code computes it.                             *)
(* bcrypt::hash is modelled as Ok(<cost, password>) and as Err for a       *)
(* password that contains a NUL byte; the code unwraps the result.         *)
(***************************************************************************)
EXTENDS Integers, Sequences, FiniteSets, TLC

VARIABLES
    db,          \* UserTable behind the Arc<Mutex<..>>: a map UserId -> User
    holder,      \* the task that owns the MutexGuard, or NoTask
    waitq,       \* tasks suspended in lock().await, in arrival order
    now,         \* chrono::Utc::now(), in minutes
    task,        \* per request task: position in its handler, arguments, result
    resetLink,   \* token experiment: the last ResetParams::from(user) and when it was made
    createLink,  \* token experiment: the last CreateParams::from(email)
    verdict      \* token experiment: the last verify call and what it returned

vars == <<db, holder, waitq, now, task, resetLink, createLink, verdict>>

(***************************************************************************)
(* Bounds of the model                                                     *)
(***************************************************************************)
NumTasks == 2
MaxClock == 240
TokenMaxClock == 183

Tasks == 1 .. NumTasks
NoTask == 0
None == [none |-> TRUE]
\* Option<T> of the builder fields: Some(x) is <<x>>, None is <<>>
Some(x) == <<x>>
Nothing == <<>>

\* values rand can draw for a UserId (u64) and for the seed email number (u16)
UserIds == {1, 12}
RandomU16 == {0, 1}
\* identifiers used by the token experiment (one has two digits)
TokenUserIds == {1, 2, 12}

\* passwords are byte strings; the second one contains a NUL byte
GoodPassword == <<112, 119>>
NulPassword == <<112, 0, 119>>
SeedPassword == <<55>>
Passwords == {GoodPassword, NulPassword}
Names == {"Ann"}
Emails == {"a@x.com", "user-0@spookysoftware.dev"}

(***************************************************************************)
(* verify.rs                                                               *)
(***************************************************************************)
SECRET_KEY == "my super secret key"

HmacSha3_256(key, bytes) == [key |-> key, msg |-> bytes]

\* Mac::verify: constant-time comparison of the computed tag with the given bytes
MacVerify(mac, token) == mac = token

GarbageToken == [key |-> "", msg |-> ""]

Pad2(n) == IF n < 10 THEN "0" \o ToString(n) ELSE ToString(n)

\* Display of chrono::DateTime<Utc>, for instants of January 2020 on a full minute
DateTimeToString(t) ==
    "2020-01-" \o Pad2((t \div 1440) + 1) \o " " \o Pad2((t % 1440) \div 60)
        \o ":" \o Pad2(t % 60) \o ":00 UTC"

Hours(n) == n * 60

\* mutant: the email is never fed to the MAC
CreateAccumMacNoInput(email) == HmacSha3_256(SECRET_KEY, "")

CreateAccumMac(email) == HmacSha3_256(SECRET_KEY, email)

CreateVerify(email, params) == MacVerify(CreateAccumMac(email), params.token)

CreateParamsFrom(email) == [email |-> email, token |-> CreateAccumMac(email)]

\* mutant: only the identifier is fed to the MAC
ResetAccumMacIdOnly(user, expires) == HmacSha3_256(SECRET_KEY, ToString(user.id))

\* mutant: only the expiry is fed to the MAC
ResetAccumMacExpiryOnly(user, expires) == HmacSha3_256(SECRET_KEY, DateTimeToString(expires))

ResetAccumMac(user, expires) ==
    HmacSha3_256(SECRET_KEY, ToString(user.id) \o DateTimeToString(expires))

\* mutant: the link is good only while the account has the credential it was issued under
ResetVerifyConsumed(user, params, clock) ==
    IF clock > params.expires
    THEN FALSE
    ELSE /\ MacVerify(ResetAccumMac(user, params.expires), params.token)
         /\ user.bcrypt_password = <<"bcrypt", 4, SeedPassword>>

ResetVerify(user, params, clock) ==
    IF clock > params.expires
    THEN FALSE
    ELSE MacVerify(ResetAccumMac(user, params.expires), params.token)

\* mutant: the MAC is computed over the time of issue, not over the expiry
ResetParamsFromSignsNow(user, clock) ==
    [user_id |-> user.id, expires |-> clock + Hours(3), token |-> ResetAccumMac(user, clock)]

ResetParamsFrom(user, clock) ==
    LET expires == clock + Hours(3)
    IN  [user_id |-> user.id, expires |-> expires, token |-> ResetAccumMac(user, expires)]

(***************************************************************************)
(* Token experiment: issue links, let time pass, present them (possibly    *)
(* edited) to verify.                                                      *)
(***************************************************************************)
Bcrypt(password, cost) ==
    IF \E i \in DOMAIN password : password[i] = 0
    THEN [ok |-> FALSE]
    ELSE [ok |-> TRUE, hash |-> <<"bcrypt", cost, password>>]

SampleUser(i) ==
    [id |-> i, name |-> "Neo", email |-> "user-0@spookysoftware.dev",
     bcrypt_password |-> Bcrypt(SeedPassword, 4).hash]

TokenInit ==
    /\ db = <<>>
    /\ holder = NoTask
    /\ waitq = <<>>
    /\ now = 0
    /\ task = [t \in Tasks |-> [pc |-> "idle", op |-> "none", arg |-> None, real_user |-> None, checked |-> None, res |-> ""]]
    /\ resetLink = None
    /\ createLink = None
    /\ verdict = None

TokenFrame == UNCHANGED <<db, holder, waitq, task>>

TokenTick ==
    /\ \E d \in {59, 60, 61} :
        /\ now + d <= TokenMaxClock
        /\ now' = now + d
    /\ verdict' = None
    /\ UNCHANGED <<resetLink, createLink>>
    /\ TokenFrame

IssueReset ==
    /\ \E i \in TokenUserIds :
        resetLink' = [user |-> SampleUser(i), at |-> now,
                      params |-> ResetParamsFrom(SampleUser(i), now)]
    /\ verdict' = None
    /\ UNCHANGED <<now, createLink>>
    /\ TokenFrame

\* what a client can send back: the link as issued, with another expiry, with
\* another token, or for another user_id
PresentedReset ==
    {resetLink.params}
    \cup {[resetLink.params EXCEPT !.expires = e] :
            e \in {resetLink.params.expires - 1, resetLink.params.expires + 1,
                   resetLink.params.expires + 60, now + 1}}
    \cup {[resetLink.params EXCEPT !.token = k] :
            k \in {GarbageToken} \cup (IF createLink = None THEN {} ELSE {createLink.params.token})}
    \cup {[resetLink.params EXCEPT !.user_id = i] : i \in TokenUserIds}

VerifyReset ==
    /\ resetLink # None
    /\ \E i \in TokenUserIds, p \in PresentedReset :
        verdict' = [kind |-> "reset", user |-> SampleUser(i), params |-> p, at |-> now,
                    ok |-> ResetVerify(SampleUser(i), p, now)]
    /\ UNCHANGED <<now, resetLink, createLink>>
    /\ TokenFrame

TokenEmails == Emails \cup {"b@x.com", "12020-01-01 03:00:00 UTC"}

IssueCreate ==
    /\ \E e \in TokenEmails : createLink' = [email |-> e, params |-> CreateParamsFrom(e)]
    /\ verdict' = None
    /\ UNCHANGED <<now, resetLink>>
    /\ TokenFrame

VerifyCreate ==
    /\ createLink # None
    /\ \E e \in TokenEmails, k \in {createLink.params.token, GarbageToken} :
        verdict' = [kind |-> "create", email |-> e,
                    params |-> [createLink.params EXCEPT !.token = k], at |-> now,
                    ok |-> CreateVerify(e, [createLink.params EXCEPT !.token = k])]
    /\ UNCHANGED <<now, resetLink, createLink>>
    /\ TokenFrame

TokenNext ==
    \/ TokenTick
    \/ IssueReset
    \/ VerifyReset
    \/ IssueCreate
    \/ VerifyCreate

TokenSpec == TokenInit /\ [][TokenNext]_vars

(***************************************************************************)
(* user.rs                                                                 *)
(***************************************************************************)
SeedNames == <<"Eric", "Linus", "Michelle", "Rogan", "Lily", "Neo">>

\* HashMap::insert: an entry already under the key is replaced
Insert(table, key, user) ==
    [k \in (DOMAIN table) \cup {key} |-> IF k = key THEN user ELSE table[k]]

\* User::from(thread_rnd, name), with the three values the generator yields
UserFrom(name, random_id, random_email, random_password) ==
    [id |-> random_id, name |-> name,
     email |-> "user-" \o ToString(random_email) \o "@spookysoftware.dev",
     bcrypt_password |-> Bcrypt(random_password, 4).hash]

RECURSIVE InsertSeeds(_, _, _, _)
InsertSeeds(table, n, ids, nums) ==
    IF n > 5
    THEN table
    ELSE InsertSeeds(Insert(table, ids[n], UserFrom(SeedNames[n], ids[n], nums[n], SeedPassword)),
                     n + 1, ids, nums)

\* mutant: Neo is stored under key 1 with the identifier that was drawn for it
CreateTestDbNeoKeepsRandomId(ids, nums) ==
    Insert(InsertSeeds(<<>>, 1, ids, nums), 1, UserFrom(SeedNames[6], ids[6], nums[6], SeedPassword))

\* create_test_db: five users under their random ids, then Neo under id 1
CreateTestDb(ids, nums) ==
    LET neo == [UserFrom(SeedNames[6], ids[6], nums[6], SeedPassword) EXCEPT !.id = 1]
    IN  Insert(InsertSeeds(<<>>, 1, ids, nums), 1, neo)

\* mutant: build goes on without a name
BuildReadyWithoutName(builder) ==
    /\ builder.requested_email # Nothing
    /\ builder.requested_password # Nothing

\* UserBuilder::build up to the call of bcrypt::hash: None when a field is missing
BuildReady(builder) ==
    /\ builder.requested_name # Nothing
    /\ builder.requested_email # Nothing
    /\ builder.requested_password # Nothing

\* the scan of add_user under the lock
Duplicate(table, email) == \E k \in DOMAIN table : table[k].email = email

\* User::reset_password once bcrypt::hash has returned Ok
ResetPassword(user, hash) == [user EXCEPT !.bcrypt_password = hash]

(***************************************************************************)
(* The server: one task per request                                        *)
(***************************************************************************)
Idle == [pc |-> "idle", op |-> "none", arg |-> None, real_user |-> None, checked |-> None, res |-> ""]

Init ==
    /\ \E ids \in [1 .. 6 -> UserIds], nums \in [1 .. 6 -> RandomU16] :
        db = CreateTestDb(ids, nums)
    /\ holder = NoTask
    /\ waitq = <<>>
    /\ now = 0
    /\ task = [t \in Tasks |-> Idle]
    /\ resetLink = None
    /\ createLink = None
    /\ verdict = None

Frame == UNCHANGED <<resetLink, createLink, verdict>>

Builders ==
    [requested_name : {Some(n) : n \in Names} \cup {Nothing},
     requested_email : {Some(e) : e \in Emails} \cup {Nothing},
     requested_password : {Some(p) : p \in Passwords} \cup {Nothing}]

\* reset links as issued at time 0 for an identifier, sent back for any user_id
ResetRequests ==
    {[ResetParamsFrom(SampleUser(a), 0) EXCEPT !.user_id = u] : u \in UserIds, a \in UserIds}

CreateRequests == {[email |-> e, token |-> CreateAccumMac(f)] : e \in Emails, f \in Emails}

Finish(t, res) == task' = [task EXCEPT ![t].pc = "done", ![t].res = res]

\* mutant: the guard is kept when the handler returns
UnlockForgotten == UNCHANGED holder

\* MutexGuard dropped
Unlock == holder' = NoTask

\* db.lock(): the task joins the queue of the mutex
LockRequest(t, op, arg) ==
    /\ task' = [task EXCEPT ![t] = [Idle EXCEPT !.pc = "wait", !.op = op, !.arg = arg]]
    /\ waitq' = Append(waitq, t)

\* time passes, four hours at a step
Tick ==
    /\ now + Hours(4) <= MaxClock
    /\ now' = now + Hours(4)
    /\ UNCHANGED <<db, holder, waitq, task>>
    /\ Frame

\* the mutex hands the lock to the longest waiting task
Acquire(t) ==
    /\ task[t].pc = "wait"
    /\ holder = NoTask
    /\ waitq # <<>>
    /\ Head(waitq) = t
    /\ holder' = t
    /\ waitq' = Tail(waitq)
    /\ task' = [task EXCEPT ![t].pc = "locked"]
    /\ UNCHANGED <<db, now>>
    /\ Frame

\* mutant: add_user takes its place in the queue of the mutex before build() hashes
AddUserCallLockFirst(t) ==
    /\ task[t].pc = "idle"
    /\ \E b \in Builders :
        IF BuildReady(b)
        THEN /\ task' = [task EXCEPT ![t] = [Idle EXCEPT !.pc = "hash", !.op = "add_user", !.arg = b]]
             /\ waitq' = Append(waitq, t)
        ELSE /\ task' = [task EXCEPT ![t] =
                            [Idle EXCEPT !.pc = "done", !.op = "add_user", !.arg = b, !.res = "Err"]]
             /\ UNCHANGED waitq
    /\ UNCHANGED <<db, holder, now>>
    /\ Frame

\* add_user(built_user), first line: build() up to the call of bcrypt::hash
AddUserCall(t) ==
    /\ task[t].pc = "idle"
    /\ \E b \in Builders :
        IF BuildReady(b)
        THEN task' = [task EXCEPT ![t] = [Idle EXCEPT !.pc = "hash", !.op = "add_user", !.arg = b]]
        ELSE task' = [task EXCEPT ![t] =
                        [Idle EXCEPT !.pc = "done", !.op = "add_user", !.arg = b, !.res = "Err"]]
    /\ UNCHANGED <<db, holder, waitq, now>>
    /\ Frame

\* mutant: the handler goes on to add_user whatever verify returned
CreateUserPostCallUnverified(t) ==
    /\ task[t].pc = "idle"
    /\ \E url_params \in CreateRequests, name \in Names, password \in Passwords :
        task' = [task EXCEPT ![t] =
                    [Idle EXCEPT !.pc = "hash", !.op = "create_user_post",
                                 !.arg = [url_params |-> url_params, requested_name |-> Some(name),
                                          requested_email |-> Some(url_params.email),
                                          requested_password |-> Some(password)]]]
    /\ UNCHANGED <<db, holder, waitq, now>>
    /\ Frame

\* create_user_post_handler up to add_user's call of bcrypt::hash
CreateUserPostCall(t) ==
    /\ task[t].pc = "idle"
    /\ \E url_params \in CreateRequests, name \in Names, password \in Passwords :
        LET is_valid == CreateVerify(url_params.email, url_params)
            arg == [url_params |-> url_params, requested_name |-> Some(name),
                    requested_email |-> Some(url_params.email),
                    requested_password |-> Some(password)]
        IN  IF is_valid /\ BuildReady(arg)
            THEN task' = [task EXCEPT ![t] =
                            [Idle EXCEPT !.pc = "hash", !.op = "create_user_post", !.arg = arg]]
            ELSE task' = [task EXCEPT ![t] =
                            [Idle EXCEPT !.pc = "done", !.op = "create_user_post", !.arg = arg,
                                         !.res = IF is_valid THEN "BadRequest" ELSE "invalid"]]
    /\ UNCHANGED <<db, holder, waitq, now>>
    /\ Frame

\* build(): bcrypt::hash(..).unwrap() and the random id; then self.lock()
BuildHash(t) ==
    /\ task[t].pc = "hash"
    /\ LET h == Bcrypt(task[t].arg.requested_password[1], 4)
       IN  IF h.ok
           THEN \E id \in UserIds :
                  /\ task' = [task EXCEPT ![t].pc = "wait",
                                 ![t].real_user =
                                    [id |-> id, name |-> task[t].arg.requested_name[1],
                                     email |-> task[t].arg.requested_email[1],
                                     bcrypt_password |-> h.hash]]
                  /\ waitq' = Append(waitq, t)
           ELSE /\ task' = [task EXCEPT ![t].pc = "panicked"]
                /\ UNCHANGED waitq
    /\ UNCHANGED <<db, holder, now>>
    /\ Frame

\* add_user under the lock: duplicate scan, then insert
AddUserLocked(t) ==
    /\ task[t].pc = "locked"
    /\ task[t].op \in {"add_user", "create_user_post"}
    /\ holder = t
    /\ LET real_user == task[t].real_user
       IN  IF Duplicate(db, real_user.email)
           THEN /\ Finish(t, IF task[t].op = "add_user" THEN "Err" ELSE "BadRequest")
                /\ UNCHANGED db
           ELSE /\ Finish(t, IF task[t].op = "add_user" THEN "Ok" ELSE "created")
                /\ db' = Insert(db, real_user.id, real_user)
    /\ Unlock
    /\ UNCHANGED <<waitq, now>>
    /\ Frame

ResetPostCall(t) ==
    /\ task[t].pc = "idle"
    /\ \E url_params \in ResetRequests, password \in Passwords :
        LockRequest(t, "reset_password_post",
                    [url_params |-> url_params, requested_password |-> password])
    /\ UNCHANGED <<db, holder, now>>
    /\ Frame

\* mutant: the password is reset whatever verify returned
ResetPostLockedUnchecked(t) ==
    /\ task[t].pc = "locked"
    /\ task[t].op = "reset_password_post"
    /\ holder = t
    /\ LET url_params == task[t].arg.url_params
       IN  IF url_params.user_id \notin DOMAIN db
           THEN /\ Finish(t, "NotFound")
                /\ Unlock
           ELSE LET user == db[url_params.user_id]
                    seen == [user |-> user, at |-> now,
                             is_valid |-> ResetVerify(user, url_params, now)]
                IN  /\ task' = [task EXCEPT ![t].pc = "rehash", ![t].checked = seen]
                    /\ UNCHANGED holder
    /\ UNCHANGED <<db, waitq, now>>
    /\ Frame

\* reset_password_post_handler under the lock: get_mut and verify
ResetPostLocked(t) ==
    /\ task[t].pc = "locked"
    /\ task[t].op = "reset_password_post"
    /\ holder = t
    /\ LET url_params == task[t].arg.url_params
       IN  IF url_params.user_id \notin DOMAIN db
           THEN /\ Finish(t, "NotFound")
                /\ Unlock
           ELSE LET user == db[url_params.user_id]
                    is_valid == ResetVerify(user, url_params, now)
                    seen == [user |-> user, at |-> now, is_valid |-> is_valid]
                IN  IF is_valid
                    THEN /\ task' = [task EXCEPT ![t].pc = "rehash", ![t].checked = seen]
                         /\ UNCHANGED holder
                    ELSE /\ task' = [task EXCEPT ![t].pc = "done", ![t].checked = seen,
                                                 ![t].res = "invalid"]
                         /\ Unlock
    /\ UNCHANGED <<db, waitq, now>>
    /\ Frame

\* user.reset_password(..): bcrypt::hash(..).unwrap(), still under the lock
ResetPostHash(t) ==
    /\ task[t].pc = "rehash"
    /\ holder = t
    /\ LET h == Bcrypt(task[t].arg.requested_password, 4)
           id == task[t].arg.url_params.user_id
       IN  IF h.ok
           THEN /\ db' = [db EXCEPT ![id] = ResetPassword(db[id], h.hash)]
                /\ Finish(t, "reset")
           ELSE /\ task' = [task EXCEPT ![t].pc = "panicked"]
                /\ UNCHANGED db
    /\ Unlock
    /\ UNCHANGED <<waitq, now>>
    /\ Frame

\* rendering a template (as_html) returns Ok or Err
RenderOutcomes == {"page", "RenderError"}

\* list_handler up to db.lock()
ListCall(t) ==
    /\ task[t].pc = "idle"
    /\ LockRequest(t, "list", None)
    /\ UNCHANGED <<db, holder, now>>
    /\ Frame

\* list_handler under the lock: the page of the sorted users, or RenderError
ListLocked(t) ==
    /\ task[t].pc = "locked"
    /\ task[t].op = "list"
    /\ holder = t
    /\ \E r \in RenderOutcomes : Finish(t, r)
    /\ Unlock
    /\ UNCHANGED <<db, waitq, now>>
    /\ Frame

\* generate_reset_password_handler up to db.lock()
GenerateCall(t) ==
    /\ task[t].pc = "idle"
    /\ \E id \in UserIds : LockRequest(t, "generate_reset_password", [id |-> id])
    /\ UNCHANGED <<db, holder, now>>
    /\ Frame

\* generate_reset_password_handler under the lock: get, ResetParams::from, render
GenerateLocked(t) ==
    /\ task[t].pc = "locked"
    /\ task[t].op = "generate_reset_password"
    /\ holder = t
    /\ LET id == task[t].arg.id
       IN  IF id \notin DOMAIN db
           THEN Finish(t, "NotFound")
           ELSE \E r \in RenderOutcomes :
                  task' = [task EXCEPT ![t].pc = "done", ![t].res = r,
                              ![t].arg = [id |-> id, link |-> ResetParamsFrom(db[id], now)]]
    /\ Unlock
    /\ UNCHANGED <<db, waitq, now>>
    /\ Frame

\* reset_password_get_handler up to db.lock()
ResetGetCall(t) ==
    /\ task[t].pc = "idle"
    /\ \E params \in ResetRequests : LockRequest(t, "reset_password_get", [url_params |-> params])
    /\ UNCHANGED <<db, holder, now>>
    /\ Frame

\* reset_password_get_handler under the lock: get, render the form
ResetGetLocked(t) ==
    /\ task[t].pc = "locked"
    /\ task[t].op = "reset_password_get"
    /\ holder = t
    /\ IF task[t].arg.url_params.user_id \notin DOMAIN db
       THEN Finish(t, "NotFound")
       ELSE \E r \in RenderOutcomes : Finish(t, r)
    /\ Unlock
    /\ UNCHANGED <<db, waitq, now>>
    /\ Frame

\* mutant: the dropped future leaves its waiter in the queue of the mutex
CancelKeepsWaiter(t) ==
    /\ task[t].pc = "wait"
    /\ task' = [task EXCEPT ![t].pc = "cancelled", ![t].real_user = None]
    /\ UNCHANGED <<db, holder, waitq, now>>
    /\ Frame

\* the connection closes while the task awaits the lock: the future is dropped
\* with the user it had built, and its waiter leaves the queue of the mutex
Cancel(t) ==
    /\ task[t].pc = "wait"
    /\ task' = [task EXCEPT ![t].pc = "cancelled", ![t].real_user = None]
    /\ waitq' = SelectSeq(waitq, LAMBDA w : w # t)
    /\ UNCHANGED <<db, holder, now>>
    /\ Frame

Next ==
    \/ Tick
    \/ \E t \in Tasks : Acquire(t)
    \/ \E t \in Tasks : AddUserCall(t)
    \/ \E t \in Tasks : CreateUserPostCall(t)
    \/ \E t \in Tasks : BuildHash(t)
    \/ \E t \in Tasks : AddUserLocked(t)
    \/ \E t \in Tasks : ResetPostCall(t)
    \/ \E t \in Tasks : ResetPostLocked(t)
    \/ \E t \in Tasks : ResetPostHash(t)
    \/ \E t \in Tasks : ListCall(t)
    \/ \E t \in Tasks : ListLocked(t)
    \/ \E t \in Tasks : GenerateCall(t)
    \/ \E t \in Tasks : GenerateLocked(t)
    \/ \E t \in Tasks : ResetGetCall(t)
    \/ \E t \in Tasks : ResetGetLocked(t)
    \/ \E t \in Tasks : Cancel(t)

Spec == Init /\ [][Next]_vars

\* the server started on a store whose five random seeds drew no identifier 1
FairInit ==
    /\ Init
    /\ \E ids \in [1 .. 6 -> UserIds \ {1}], nums \in [1 .. 6 -> RandomU16] :
        db = CreateTestDb(ids, nums)

\* the steps of task t that the runtime takes once the request has arrived
TaskStep(t) ==
    \/ Acquire(t)
    \/ BuildHash(t)
    \/ AddUserLocked(t)
    \/ ResetPostLocked(t)
    \/ ResetPostHash(t)
    \/ ListLocked(t)
    \/ GenerateLocked(t)
    \/ ResetGetLocked(t)

\* the runtime keeps polling every task that can run, and the mutex hands the
\* lock on in the order of arrival; requests and cancellations come as they may
FairSpec == FairInit /\ [][Next]_vars /\ \A t \in Tasks : WF_vars(TaskStep(t))

(***************************************************************************)
(* The listing: stores filled by inserts, listed in any iteration order of *)
(* the HashMap.                                                            *)
(***************************************************************************)
ListIds == {1, 2, 7, 12}

\* the orders in which HashMap::values may yield the entries of the table
IterationOrders(table) ==
    {o \in [1 .. Cardinality(DOMAIN table) -> DOMAIN table] :
        \A i, j \in DOMAIN o : i # j => o[i] # o[j]}

\* table.values().collect::<Vec<_>>()
Values(table, order) == [i \in DOMAIN order |-> table[order[i]]]

\* the sequence without its element at index m
RemoveAt(users, m) == [i \in 1 .. Len(users) - 1 |-> IF i < m THEN users[i] ELSE users[i + 1]]

\* mutant: the vector is left in iteration order
LeftUnsorted(users) == users

\* users.sort_unstable_by_key(|user| user.id)
RECURSIVE SortUnstableByKey(_)
SortUnstableByKey(users) ==
    IF users = <<>>
    THEN <<>>
    ELSE LET m == CHOOSE i \in DOMAIN users : \A j \in DOMAIN users : users[i].id <= users[j].id
         IN  <<users[m]>> \o SortUnstableByKey(RemoveAt(users, m))

\* impl From<&UserTable> for ListUsersTemplate
ListUsersTemplateFrom(table, order) == SortUnstableByKey(Values(table, order))

ListInit == Init

\* users.insert(real_user.id, real_user) of add_user, for any drawn identifier
ListInsert ==
    /\ \E id \in ListIds :
        db' = Insert(db, id, [id |-> id, name |-> "Ann", email |-> "a@x.com",
                              bcrypt_password |-> Bcrypt(GoodPassword, 4).hash])
    /\ verdict' = None
    /\ UNCHANGED <<holder, waitq, now, task, resetLink, createLink>>

\* list_handler: the template built from the table under the lock
ListUsers ==
    /\ \E order \in IterationOrders(db) :
        verdict' = [kind |-> "list", order |-> order, users |-> ListUsersTemplateFrom(db, order)]
    /\ UNCHANGED <<db, holder, waitq, now, task, resetLink, createLink>>

ListNext == ListInsert \/ ListUsers

ListSpec == ListInit /\ [][ListNext]_vars

(***************************************************************************)
(* Properties                                                              *)
(***************************************************************************)
IsResetVerdict == verdict # None /\ verdict.kind = "reset"
IsCreateVerdict == verdict # None /\ verdict.kind = "create"

\* the last verify call was given the link exactly as it was issued, for its own account
SameLinkSameUser ==
    /\ IsResetVerdict
    /\ verdict.user = resetLink.user
    /\ verdict.params = resetLink.params

\* C3: ResetParams::verify returns false whenever the current time is greater than
\* or equal to the expiry of the presented parameters, for every account and token;
\* a correctly signed token whose expiry equals the current time is rejected.
C3_ExpiredOrDueRejected ==
    (IsResetVerdict /\ verdict.at >= verdict.params.expires) => ~verdict.ok

\* C4: a reset link made at time T0 carries expiry T0 + 3 hours (180 minutes); verify
\* against the same account returns true at every time before the expiry, and false
\* one minute after it.
C4_ValidForThreeHours ==
    resetLink # None =>
        /\ resetLink.params.expires = resetLink.at + 180
        /\ (SameLinkSameUser /\ verdict.at < resetLink.at + 180) => verdict.ok
        /\ (SameLinkSameUser /\ verdict.at = resetLink.at + 181) => ~verdict.ok

C4_Witness ==
    /\ SameLinkSameUser
    /\ verdict.at = resetLink.at + 179
    /\ verdict.ok

\* C6: the token of a link issued with expiry E, presented for the same account with
\* a transported expiry other than E, does not verify.
C6_EditedExpiryRejected ==
    ( /\ IsResetVerdict
      /\ verdict.user = resetLink.user
      /\ verdict.params.token = resetLink.params.token
      /\ verdict.params.expires # resetLink.params.expires ) => ~verdict.ok

C6_Witness ==
    /\ IsResetVerdict
    /\ verdict.user = resetLink.user
    /\ verdict.params.token = resetLink.params.token
    /\ verdict.params.expires > resetLink.params.expires
    /\ verdict.at < resetLink.params.expires
    /\ ~verdict.ok

\* C7: the token of CreateParams::from(e) verifies against the candidate email e and
\* against no other candidate email.
C7_CreateTokenBindsEmail ==
    (IsCreateVerdict /\ verdict.params.token = CreateParamsFrom(createLink.email).token)
        => (verdict.ok <=> verdict.email = createLink.email)

C7_Witness ==
    /\ IsCreateVerdict
    /\ verdict.params.token = CreateParamsFrom(createLink.email).token
    /\ verdict.email = createLink.email
    /\ verdict.ok

EmailCount(email) == Cardinality({k \in DOMAIN db : db[k].email = email})

\* C1: when every task has called add_user with a complete builder carrying the
\* email "a@x.com" (an email the initial store never holds) and all calls are over,
\* exactly one call returned Ok, the others returned the error, and the store
\* holds exactly one account with that email.
C1_OneOfNSucceeds ==
    (\A t \in Tasks :
        /\ task[t].op = "add_user"
        /\ task[t].pc \in {"done", "panicked"}
        /\ BuildReady(task[t].arg)
        /\ task[t].arg.requested_email = Some("a@x.com"))
    => /\ Cardinality({t \in Tasks : task[t].res = "Ok"}) = 1
       /\ Cardinality({t \in Tasks : task[t].res = "Err"}) = NumTasks - 1
       /\ EmailCount("a@x.com") = 1

\* C2: in every reachable state no two accounts of the store have the same email.
C2_EmailsUnique ==
    \A j, k \in DOMAIN db : j # k => db[j].email # db[k].email

\* C5: a reset token issued for account A never verifies against an account B with
\* another identifier, and the reset POST handler, which verifies against the
\* account it looked up, ends with the "invalid" page without resetting B's password.
IssuedFor(token, a) == token = ResetParamsFrom(SampleUser(a), 0).token

C5_NoCrossAccountReset ==
    \A t \in Tasks :
        ( /\ task[t].op = "reset_password_post"
          /\ task[t].checked # None
          /\ \E a \in UserIds :
                /\ a # task[t].checked.user.id
                /\ IssuedFor(task[t].arg.url_params.token, a) )
        => /\ ~task[t].checked.is_valid
           /\ ~ResetVerify(task[t].checked.user, task[t].arg.url_params, task[t].checked.at)
           /\ task[t].pc = "done"
           /\ task[t].res = "invalid"

C5_Witness ==
    \E t \in Tasks :
        /\ task[t].op = "reset_password_post"
        /\ task[t].checked # None
        /\ \E a \in UserIds :
              /\ a # task[t].checked.user.id
              /\ IssuedFor(task[t].arg.url_params.token, a)
        /\ task[t].checked.at < task[t].arg.url_params.expires
        /\ task[t].res = "invalid"

\* C8: a step of a reset POST request changes the store only by overwriting the
\* credential of the account it looked up, while it holds the lock under which
\* verify returned true for that account and the request's parameters; when the
\* identifier is unknown or verify returns false the request ends with the store
\* unchanged.
C8_ResetOnlyWhenVerified ==
    [][\A t \in Tasks :
        (task[t].op = "reset_password_post" /\ task'[t] # task[t]) =>
            LET p == task[t].arg.url_params
            IN  /\ db' # db =>
                    /\ holder = t
                    /\ p.user_id \in DOMAIN db
                    /\ task[t].checked # None
                    /\ task[t].checked.user = db[p.user_id]
                    /\ ResetVerify(db[p.user_id], p, task[t].checked.at)
                    /\ db' = [db EXCEPT ![p.user_id].bcrypt_password =
                                    Bcrypt(task[t].arg.requested_password, 4).hash]
                /\ ( /\ task[t].pc = "locked"
                     /\ \/ p.user_id \notin DOMAIN db
                        \/ ~ResetVerify(db[p.user_id], p, now) )
                   => (db' = db /\ task'[t].pc = "done" /\ holder' = NoTask)
                /\ task[t].pc = "rehash" => holder = t
      ]_vars

C8_Witness ==
    \E t \in Tasks :
        /\ task[t].op = "reset_password_post"
        /\ task[t].res = "reset"
        /\ task[t].checked.is_valid
        /\ db[task[t].arg.url_params.user_id].bcrypt_password =
              Bcrypt(task[t].arg.requested_password, 4).hash
        /\ db[task[t].arg.url_params.user_id].bcrypt_password #
              task[t].checked.user.bcrypt_password

\* C9: a step of a create POST request changes the store only by inserting one
\* account, only when CreateParams::verify succeeded on the request's parameters,
\* and the inserted account's email is the email of those parameters; when verify
\* fails the request ends at once with the store unchanged.
C9_CreateOnlyVerifiedEmail ==
    [][\A t \in Tasks :
        (task'[t].op = "create_user_post" /\ task'[t] # task[t]) =>
            LET url_params == task'[t].arg.url_params
            IN  /\ db' # db =>
                    /\ CreateVerify(url_params.email, url_params)
                    /\ task[t].real_user.email = url_params.email
                    /\ db' = Insert(db, task[t].real_user.id, task[t].real_user)
                    /\ db'[task[t].real_user.id].email = url_params.email
                /\ ~CreateVerify(url_params.email, url_params)
                   => (db' = db /\ task'[t].pc = "done" /\ task'[t].res = "invalid")
      ]_vars

C9_Witness ==
    \E t \in Tasks :
        /\ task[t].op = "create_user_post"
        /\ task[t].res = "created"
        /\ CreateVerify(task[t].arg.url_params.email, task[t].arg.url_params)
        /\ task[t].real_user.id \in DOMAIN db
        /\ db[task[t].real_user.id] = task[t].real_user
        /\ db[task[t].real_user.id].email = task[t].arg.url_params.email

\* C10: the step that ends an add_user call with a complete builder returns the
\* error and leaves the store as it was when an account of the store has the
\* builder's email, and otherwise returns Ok with the new account inserted.
C10_DuplicateErrElseInsert ==
    [][\A t \in Tasks :
        ( /\ task[t].op = "add_user"
          /\ task[t].pc # task'[t].pc
          /\ task'[t].pc \in {"done", "panicked"} )
        => IF Duplicate(db, task[t].arg.requested_email[1])
           THEN /\ task'[t].pc = "done"
                /\ task'[t].res = "Err"
                /\ db' = db
           ELSE /\ task'[t].pc = "done"
                /\ task'[t].res = "Ok"
                /\ task[t].real_user # None
                /\ db' = Insert(db, task[t].real_user.id, task[t].real_user)
      ]_vars

\* C11: an account that is in the store stays in the store with its identifier,
\* name and email, whatever add_user and the password resets do afterwards
C11_AccountsNeverDeleted ==
    [][\A k \in DOMAIN db :
         \E j \in DOMAIN db' :
            /\ db'[j].id = db[k].id
            /\ db'[j].name = db[k].name
            /\ db'[j].email = db[k].email]_vars

\* C12: no request drives a task into a panic
C12_NoPanic == \A t \in Tasks : task[t].pc # "panicked"

\* the reset POST task t has looked its account up and called verify
ResetChecked(t) == task[t].op = "reset_password_post" /\ task[t].checked # None

\* C13: a reset link presented as it was issued for the account, at a time
\* before its expiry, verifies every time: whatever was verified before
\* and whether or not the password has already been reset with it
C13_ResetTokenNotConsumed ==
    \A t \in Tasks :
        ( /\ ResetChecked(t)
          /\ task[t].arg.url_params = ResetParamsFrom(SampleUser(task[t].checked.user.id), 0)
          /\ task[t].checked.at < task[t].arg.url_params.expires )
        => task[t].checked.is_valid

\* one request has reset the password with the link, and the same link then
\* verifies again against the account with the new credential
C13_Witness ==
    \E t1, t2 \in Tasks :
        /\ t1 # t2
        /\ ResetChecked(t1) /\ ResetChecked(t2)
        /\ task[t1].res = "reset"
        /\ task[t2].arg.url_params = task[t1].arg.url_params
        /\ task[t2].checked.user.bcrypt_password = <<"bcrypt", 4, task[t1].arg.requested_password>>
        /\ task[t2].checked.user.bcrypt_password # <<"bcrypt", 4, SeedPassword>>
        /\ task[t2].checked.at < task[t2].arg.url_params.expires
        /\ task[t2].checked.is_valid

\* the builder lacks its name, its email or its password
FieldMissing(builder) ==
    \/ builder.requested_name = <<>>
    \/ builder.requested_email = <<>>
    \/ builder.requested_password = <<>>

\* C14: add_user with a builder that lacks a field returns Err at once, builds
\* no user, never asks for the lock and leaves the store as it was; build goes
\* on to hashing, and yields a user, only with all three fields present
C14_IncompleteBuilderErr ==
    [][\A t \in Tasks :
         /\ (task[t].pc = "idle" /\ task'[t].op = "add_user") =>
                /\ FieldMissing(task'[t].arg) =>
                      /\ task'[t].pc = "done"
                      /\ task'[t].res = "Err"
                      /\ task'[t].real_user = None
                      /\ db' = db
                      /\ waitq' = waitq
                /\ task'[t].pc = "hash" => ~FieldMissing(task'[t].arg)
         /\ (task'[t].op = "add_user" /\ task'[t].real_user # None) =>
                ~FieldMissing(task'[t].arg)]_vars

\* an add_user call with a builder without a name has returned Err while
\* another call with a complete builder has built its user
C14_Witness ==
    \E t1, t2 \in Tasks :
        /\ task[t1].op = "add_user" /\ task[t1].pc = "done" /\ task[t1].res = "Err"
        /\ task[t1].arg.requested_name = <<>>
        /\ task[t1].arg.requested_email # <<>>
        /\ task[t1].arg.requested_password # <<>>
        /\ task[t2].op = "add_user" /\ task[t2].real_user # None

IsListVerdict == verdict # None /\ verdict.kind = "list"

\* C15: the listing holds every account of the store exactly once and its
\* identifiers are strictly ascending, whatever the store holds and in
\* whatever order the map yields its entries
C15_ListingCompleteAndSorted ==
    IsListVerdict =>
        LET users == verdict.users
        IN  /\ Len(users) = Cardinality(DOMAIN db)
            /\ \A k \in DOMAIN db : Cardinality({i \in DOMAIN users : users[i] = db[k]}) = 1
            /\ \A i \in 1 .. Len(users) - 1 : users[i].id < users[i + 1].id

\* a store of four accounts or more was listed from an iteration order that
\* was not ascending
C15_Witness ==
    /\ IsListVerdict
    /\ Len(verdict.users) >= 4
    /\ verdict.order[1] > verdict.order[2]
    /\ verdict.order[2] < verdict.order[3]

\* the task runs add_user, called directly or by create_user_post_handler
RunsAddUser(t) == task[t].op \in {"add_user", "create_user_post"}

\* the tasks in the queue of the mutex
Waiting == {waitq[i] : i \in DOMAIN waitq}

\* C16: a task of add_user that is hashing neither holds the lock nor has asked
\* for it; when it asks for the lock its user is already built; and what it
\* does to the store while it holds the lock is the insert of that user after
\* a scan that found no duplicate, or nothing
C16_HashBeforeLock ==
    [][\A t \in Tasks :
         RunsAddUser(t) =>
            /\ task[t].pc = "hash" => (holder # t /\ t \notin Waiting)
            /\ task'[t].pc = "hash" => (holder' # t /\ t \notin Waiting')
            /\ task'[t].pc \in {"wait", "locked"} => task'[t].real_user # None
            /\ holder = t =>
                  /\ task[t].pc = "locked"
                  /\ \/ db' = db
                     \/ /\ ~Duplicate(db, task[t].real_user.email)
                        /\ db' = Insert(db, task[t].real_user.id, task[t].real_user)]_vars

\* a task of add_user is hashing while another task of add_user holds the lock
C16_Witness ==
    \E t1, t2 \in Tasks :
        /\ RunsAddUser(t1) /\ task[t1].pc = "hash"
        /\ RunsAddUser(t2) /\ task[t2].pc = "locked" /\ holder = t2

\* C17: a task that is hashing a password does not hold the lock of the store
C17_NoHashingUnderLock ==
    \A t \in Tasks : task[t].pc \in {"hash", "rehash"} => holder # t

UserFields == {"id", "name", "email", "bcrypt_password"}

\* C18: a task is cancelled only while it waits for the lock; the step leaves
\* the store and the holder of the lock as they were and takes the task out of
\* the queue, and the task had not touched the store before, because the store
\* changes only in a step of the task that holds the lock, which then
\* finishes; every entry of a changed store is a whole account
C18_CancelLeavesStore ==
    [][\A t \in Tasks :
         /\ task'[t].pc = "cancelled" =>
               /\ holder' # t
               /\ t \notin Waiting'
               /\ task[t].pc \in {"wait", "cancelled"}
               /\ task[t].pc = "wait" => (db' = db /\ holder' = holder)
         /\ task'[t].pc = "wait" => (task[t].pc \in {"idle", "hash", "wait"} /\ holder' # t)
         /\ task'[t].pc = "hash" => task[t].pc \in {"idle", "hash"}
         /\ db' # db =>
               /\ holder \in Tasks
               /\ task[holder].pc \in {"locked", "rehash"}
               /\ task'[holder].pc = "done"
               /\ t # holder => task'[t] = task[t]
               /\ \A k \in DOMAIN db' : DOMAIN db'[k] = UserFields]_vars

\* an add_user task that had built its user was cancelled in the queue while
\* another task held the lock, and the store holds no account beyond the seeds
C18_Witness ==
    \E t1, t2 \in Tasks :
        /\ task[t1].pc = "cancelled" /\ task[t1].op = "add_user"
        /\ holder = t2
        /\ \A k \in DOMAIN db : db[k].name \in {SeedNames[i] : i \in DOMAIN SeedNames}

\* C19: every entry of the store is kept under the identifier of its account
C19_KeyIsIdentifier == \A k \in DOMAIN db : db[k].id = k

\* the store holds Neo under 1 and an account that add_user inserted under 12,
\* whose password has since been reset
C19_Witness ==
    /\ DOMAIN db = {1, 12}
    /\ db[1].name = "Neo"
    /\ db[12].name = "Ann"
    /\ \E t \in Tasks :
          /\ task[t].op = "reset_password_post" /\ task[t].res = "reset"
          /\ task[t].arg.url_params.user_id = 12
          /\ task[t].checked.user.name = "Ann"

\* the request of the task is over: answered, unwound by a panic, or dropped
Terminal == {"done", "panicked", "cancelled"}

====
